---- MODULE Spec2Model ----
(***************************************************************************)
(* Model of the mirrorsharp web-assets test driver                         *)
(* (WebAssets/tests/test-driver-isomorphic.ts) and of the change messages  *)
(* its editor sends (WebAssets/src/codemirror/server/send-changes.tests.ts)*)
(*                                                                         *)
(* The program is single threaded.  A step of the model is one synchronous *)
(* segment of JavaScript: a call made by the test script, or the           *)
(* continuation of the innermost suspended async function.  The test       *)
(* script awaits every async call it makes, as the tests do.               *)
(***************************************************************************)
EXTENDS Integers, Sequences, FiniteSets, TLC

VARIABLES
    globalWebSocket,  \* globalThis.WebSocket: "native" or "factory"
    generation,       \* number of TestDriver instances constructed so far
    options,          \* TestDriver.#optionsForJSONOnly
    actions,          \* TestRecorder.#actions of the current driver
    sent,             \* MockSocket.sent
    createdCount,     \* MockSocket.createdCount
    handlers,         \* MockSocket.#handlers
    doc,              \* editor document (one element per character)
    cursor,           \* editor selection.primary.anchor
    connected,        \* editor connection has seen 'open'
    hello,            \* messages the editor sends when its connection opens
    outbox,           \* messages the editor holds until the connection opens
    timerPending,     \* the editor has a pending timer
    stack,            \* suspended async functions, innermost last
    calls,            \* number of calls the test script made on its drivers
    runs,             \* history: original method bodies started on this driver
    events,           \* history: MockSocket.trigger calls
    handled,          \* history: handler invocations made by trigger
    trace,            \* history: steps of the running completeBackgroundWorkAfterEach
    lastTx,           \* history: the last transaction dispatched to the editor
    dispatched,       \* history: the transaction specs dispatched to the editor
    returned,         \* what the last finished call of the test script returned
    original          \* recorder log of the driver toJSON was taken from

vars == <<globalWebSocket, generation, options, actions, sent, createdCount,
          handlers, doc, cursor, connected, hello, outbox, timerPending, stack,
          calls, runs, events, handled, trace, lastTx, dispatched, returned,
          original>>

-----------------------------------------------------------------------------
(* Bounds of the model *)

\* calls the test script makes on its drivers
MaxCalls == 2
\* actions passed to one completeBackgroundWorkAfterEach call
MaxEach == 2
\* simultaneous changes of one transaction
MaxChanges == 3
\* characters one change removes
MaxRemove == 1
\* transactions the editing specification dispatches to one editor
MaxEdits == 1
\* drivers created in one context, by TestDriver.new or TestDriver.fromJSON
MaxDrivers == 2
\* turns of a replay loop over the log of its own recorder
MaxTurns == 3
\* listeners added to one socket
MaxListeners == 3
\* events triggered on one socket
MaxTriggers == 2
\* characters of an initial text, the cursor mark included
MaxText == 3

-----------------------------------------------------------------------------
(* Characters and strings: a string is a sequence of one-character strings *)

CR == "\r"
LF == "\n"
Letters == {"x", "y"}

DigitChars == <<"0", "1", "2", "3", "4", "5", "6", "7", "8", "9">>

RECURSIVE NumberToString(_)
NumberToString(n) ==
    IF n < 10 THEN <<DigitChars[n + 1]>>
    ELSE NumberToString(n \div 10) \o <<DigitChars[(n % 10) + 1]>>

RECURSIVE indexOf(_, _)
indexOf(str, ch) ==
    IF str = <<>> THEN -1
    ELSE IF Head(str) = ch THEN 0
    ELSE LET r == indexOf(Tail(str), ch) IN IF r = -1 THEN -1 ELSE r + 1

\* String.prototype.replace(ch, ''): removes the first occurrence only
replaceFirst(str, ch) ==
    LET i == indexOf(str, ch)
    IN IF i = -1 THEN str
       ELSE SubSeq(str, 1, i) \o SubSeq(str, i + 2, Len(str))

startsWith(str, ch) == Len(str) > 0 /\ str[1] = ch

IsPrefix(a, b) == Len(a) <= Len(b) /\ SubSeq(b, 1, Len(a)) = a

-----------------------------------------------------------------------------
(* The state as one record, so that the code's sequential calls compose *)

St ==
    [globalWebSocket |-> globalWebSocket, generation |-> generation,
     options |-> options, actions |-> actions, sent |-> sent,
     createdCount |-> createdCount, handlers |-> handlers, doc |-> doc,
     cursor |-> cursor, connected |-> connected, hello |-> hello,
     outbox |-> outbox, timerPending |-> timerPending, stack |-> stack,
     calls |-> calls,
     runs |-> runs, events |-> events, handled |-> handled, trace |-> trace,
     lastTx |-> lastTx, dispatched |-> dispatched, returned |-> returned,
     original |-> original]

Commit(s) ==
    /\ globalWebSocket' = s.globalWebSocket
    /\ generation' = s.generation
    /\ options' = s.options
    /\ actions' = s.actions
    /\ sent' = s.sent
    /\ createdCount' = s.createdCount
    /\ handlers' = s.handlers
    /\ doc' = s.doc
    /\ cursor' = s.cursor
    /\ connected' = s.connected
    /\ hello' = s.hello
    /\ outbox' = s.outbox
    /\ timerPending' = s.timerPending
    /\ stack' = s.stack
    /\ calls' = s.calls
    /\ runs' = s.runs
    /\ events' = s.events
    /\ handled' = s.handled
    /\ trace' = s.trace
    /\ lastTx' = s.lastTx
    /\ dispatched' = s.dispatched
    /\ returned' = s.returned
    /\ original' = s.original

-----------------------------------------------------------------------------
(* Values passed around: transaction specs, call arguments, frames *)

Change(from, to, insert) == [from |-> from, to |-> to, insert |-> insert]

TransactionSpec(changes, selection, userEvent) ==
    [changes |-> changes, selection |-> selection, userEvent |-> userEvent]

NoSpec == TransactionSpec(<<>>, -1, "")

ArgFunction(name) == [kind |-> "function", name |-> name, text |-> <<>>, tx |-> NoSpec]
ArgString(text) == [kind |-> "string", name |-> "", text |-> text, tx |-> NoSpec]
ArgNumber(n) == [kind |-> "number", name |-> "", text |-> NumberToString(n), tx |-> NoSpec]
ArgObject(tx) == [kind |-> "object", name |-> "", text |-> <<>>, tx |-> tx]

Tuple(target, action, args) == [target |-> target, action |-> action, args |-> args]

Frame(fn, pos, i, acts, list) ==
    [fn |-> fn, pos |-> pos, i |-> i, acts |-> acts, list |-> list]

Push(s, frame) == [s EXCEPT !.stack = Append(@, frame)]
Pop(s) == [s EXCEPT !.stack = SubSeq(@, 1, Len(@) - 1)]
Top(s) == s.stack[Len(s.stack)]

Returned(kind, list) == [kind |-> kind, actions |-> list]

-----------------------------------------------------------------------------
(* MockSocket *)

\* a send that puts the message in front
sendInFront(s, message) == [s EXCEPT !.sent = <<message>> \o @]

\* MockSocket.send
send(s, message) == [s EXCEPT !.sent = Append(@, message)]

\* MockSocket.addEventListener
addEventListener(s, event, handler) ==
    [s EXCEPT !.handlers[event] = Append(@, handler)]

-----------------------------------------------------------------------------
(* The editor behind the driver: mirrorsharp(container, options).  Its code *)
(* is outside the excerpt; it is modelled from the specification's          *)
(* sections 2 and 6 and from the messages the tests expect.                 *)

Message(tag, body) == <<tag>> \o body

\* the editor's connection sends at once when open, and holds messages else
connectionSend(s, message) ==
    IF s.connected THEN send(s, message)
    ELSE [s EXCEPT !.outbox = Append(@, message)]

RECURSIVE sendAll(_, _)
sendAll(s, messages) ==
    IF messages = <<>> THEN s
    ELSE sendAll(send(s, Head(messages)), Tail(messages))

\* the editor's listeners on its socket
onOpen(s) ==
    LET s1 == [s EXCEPT !.connected = TRUE]
        s2 == sendAll(s1, s1.hello)
    IN [sendAll(s2, s2.outbox) EXCEPT !.outbox = <<>>]

onMessage(s, e) == s

onClose(s) == [s EXCEPT !.connected = FALSE]

Handle(s, handler, event, e) ==
    LET s1 == [s EXCEPT !.handled = Append(@, [handler |-> handler, event |-> event, type |-> e])]
    IN CASE handler = "onOpen" -> onOpen(s1)
         [] handler = "onMessage" -> onMessage(s1, e)
         [] handler = "onClose" -> onClose(s1)
         [] OTHER -> s1

RECURSIVE CallHandlers(_, _, _, _)
CallHandlers(s, list, event, e) ==
    IF list = <<>> THEN s
    ELSE CallHandlers(Handle(s, Head(list), event, e), Tail(list), event, e)

\* a trigger that calls the handlers of every event
triggerEveryHandler(s, event, e) ==
    LET s1 == [s EXCEPT !.events = Append(@, [event |-> event, type |-> e])]
    IN CallHandlers(s1, s1.handlers.open \o s1.handlers.message \o s1.handlers.close,
                    event, e)

\* MockSocket.trigger; e is the type of the message event's JSON payload
trigger(s, event, e) ==
    LET s1 == [s EXCEPT !.events = Append(@, [event |-> event, type |-> e])]
    IN CallHandlers(s1, s1.handlers[event], event, e)

\* the timers object: the editor's pending timer asks for a slow update
FireTimers(s) ==
    IF s.timerPending
    THEN connectionSend([s EXCEPT !.timerPending = FALSE], Message("U", <<>>))
    ELSE s

Step(what, i) == [what |-> what, i |-> i]

Traced(s, what, i) ==
    IF s.trace.running THEN [s EXCEPT !.trace.steps = Append(@, Step(what, i))] ELSE s

runOnlyPendingTimers(s) == Traced(FireTimers(s), "timers", 0)

advanceTimersByTime(s, ms) == FireTimers(s)

advanceTimersToNextTimer(s) == FireTimers(s)

-----------------------------------------------------------------------------
(* Transactions of the editor (CodeMirror) and the change messages *)

\* the changes of a transaction are at offsets of the original document,
\* in ascending order, and do not overlap
RECURSIVE ApplyChanges(_, _)
ApplyChanges(text, changes) ==
    IF changes = <<>> THEN text
    ELSE LET c == changes[Len(changes)]
             rest == SubSeq(changes, 1, Len(changes) - 1)
             after == SubSeq(text, 1, c.from) \o c.insert \o SubSeq(text, c.to + 1, Len(text))
         IN ApplyChanges(after, rest)

\* where a cursor at pos ends up when no selection comes with the changes:
\* it stays in front of text inserted at it
RECURSIVE MapPos(_, _, _)
MapPos(changes, pos, shift) ==
    IF changes = <<>> THEN pos + shift
    ELSE LET c == Head(changes)
         IN IF c.from > pos THEN pos + shift
            ELSE IF c.to < pos \/ (c.to = pos /\ c.from < c.to)
                 THEN MapPos(Tail(changes), pos, shift + Len(c.insert) - (c.to - c.from))
                 ELSE c.from + shift

\* a text sent as the document holds it
SentTextAsIs(text) == text

\* the text as sent: a line break of the document goes out as CR LF
RECURSIVE SentText(_)
SentText(text) ==
    IF text = <<>> THEN <<>>
    ELSE (IF Head(text) = LF THEN <<CR, LF>> ELSE <<Head(text)>>) \o SentText(Tail(text))

\* R<start>:<removedLength>:<insertedLength>:<tag>:<insertedText>
ReplaceMessage(start, removed, text) ==
    Message("R", NumberToString(start) \o <<":">> \o NumberToString(removed)
                 \o <<":">> \o NumberToString(Len(text)) \o <<":">> \o <<":">> \o text)

\* C<char>
TypedMessage(char) == Message("C", <<char>>)

\* one R message per change, each start moved by what the earlier changes
\* of the same transaction inserted and removed
RECURSIVE sendReplaced(_, _, _)
sendReplaced(s, changes, offset) ==
    IF changes = <<>> THEN s
    ELSE LET c == Head(changes)
             text == SentText(c.insert)
             s1 == connectionSend(s, ReplaceMessage(c.from + offset, c.to - c.from, text))
         IN sendReplaced(s1, Tail(changes), offset + Len(text) - (c.to - c.from))

IsTypedAtCursor(changes, cursorBefore) ==
    /\ Len(changes) = 1
    /\ changes[1].from = cursorBefore
    /\ changes[1].to = cursorBefore
    /\ Len(SentText(changes[1].insert)) = 1

sendChanges(s, changes, cursorBefore) ==
    IF changes = <<>> THEN s
    ELSE IF IsTypedAtCursor(changes, cursorBefore)
         THEN connectionSend(s, TypedMessage(changes[1].insert[1]))
         ELSE sendReplaced(s, changes, 0)

\* EditorView.dispatch(state.update(spec))
dispatch(s, tx) ==
    LET before == s.cursor
        s1 == [s EXCEPT !.doc = ApplyChanges(@, tx.changes),
                        !.cursor = IF tx.selection = -1 THEN MapPos(tx.changes, before, 0)
                                   ELSE tx.selection,
                        !.timerPending = @ \/ tx.changes # <<>>,
                        !.dispatched = Append(@, tx),
                        !.lastTx = [n |-> s.lastTx.n + 1, changes |-> tx.changes,
                                    cursor |-> before, origin |-> "",
                                    mark |-> Len(s.sent) + Len(s.outbox)]]
    IN sendChanges(s1, tx.changes, before)

NoTx == [n |-> 0, changes |-> <<>>, cursor |-> 0, origin |-> "", mark |-> 0]

From(s, origin) == [s EXCEPT !.lastTx.origin = origin]

\* domEvents.keydown('Enter'): the editor breaks the line at the cursor
keydownEnter(s) ==
    From(dispatch(s, TransactionSpec(<<Change(s.cursor, s.cursor, <<LF>>)>>,
                                     s.cursor + 1, "input")), "keydown")

-----------------------------------------------------------------------------
(* TestRecorder: the wrappers #observe installs, and the observed methods *)

Functions ==
    [TestText |-> {"type"},
     TestReceiver |-> {"changes", "optionsEcho", "completions", "completionInfo"},
     TestDriver |-> {"getCodeMirrorView", "dispatchCodeMirrorTransaction",
                     "completeBackgroundWork", "completeBackgroundWorkAfterEach",
                     "advanceTimeAndCompleteNextLinting", "toJSON"}]

\* the exclude option the TestDriver constructor gives its recorder
exclude(target, key) == target = "TestDriver" /\ key \in {"render", "toJSON"}

\* the keys #observe replaces by a recording wrapper
Observed(target, key) ==
    /\ key \in Functions[target]
    /\ key # "constructor"
    /\ ~exclude(target, key)

\* a check that looks at the first recorded action only
HasFunctionArgumentInFirst(list) ==
    list # <<>> /\ \E a \in 1..Len(list[1].args) : list[1].args[a].kind = "function"

\* TestRecorder.toJSON: the function-typed argument that stops it, if any
HasFunctionArgument(list) ==
    \E k \in 1..Len(list) : \E a \in 1..Len(list[k].args) :
        list[k].args[a].kind = "function"

TestRecorder_toJSON(s) ==
    IF HasFunctionArgument(s.actions)
    THEN [s EXCEPT !.returned = Returned("error", <<>>)]
    ELSE [s EXCEPT !.returned = Returned("json", s.actions)]

\* TestDriver.toJSON
TestDriver_toJSON(s) == TestRecorder_toJSON(s)

\* a type that inserts every character at the offset the cursor had at first
RECURSIVE typeFromSameOffset(_, _, _)
typeFromSameOffset(s, text, cursorOffset) ==
    IF text = <<>> THEN s
    ELSE LET tx == TransactionSpec(<<Change(cursorOffset, cursorOffset, <<Head(text)>>)>>,
                                   cursorOffset + 1, "input")
         IN typeFromSameOffset(From(dispatch(s, tx), "type"), Tail(text), cursorOffset)

\* TestText.type
RECURSIVE typeFrom(_, _, _)
typeFrom(s, text, cursorOffset) ==
    IF text = <<>> THEN s
    ELSE LET newCursorOffset == cursorOffset + 1
             tx == TransactionSpec(<<Change(cursorOffset, cursorOffset, <<Head(text)>>)>>,
                                   newCursorOffset, "input")
         IN typeFrom(From(dispatch(s, tx), "type"), Tail(text), newCursorOffset)

\* a type that starts at the beginning of the document, not at the cursor
typeAtStart(s, text) == typeFrom(s, text, 0)

type(s, text) == typeFrom(s, text, s.cursor)

\* a receiver whose methods all build the payload of changes
receiveAsChanges(s, messageType) == trigger(s, "message", "changes")

\* TestReceiver.changes, optionsEcho, completions, completionInfo
receive(s, messageType) == trigger(s, "message", messageType)

\* a dispatch that loses the specs it was given
dispatchWithoutSpecs(s, specs) ==
    From(dispatch(s, NoSpec), "dispatchCodeMirrorTransaction")

\* a dispatch that passes on only the first change of its spec
dispatchFirstChange(s, specs) ==
    From(dispatch(s, IF specs = <<>> THEN NoSpec
                     ELSE [specs[1].tx EXCEPT !.changes = SubSeq(@, 1, 1)]),
         "dispatchCodeMirrorTransaction")

\* TestDriver.dispatchCodeMirrorTransaction
dispatchCodeMirrorTransaction(s, specs) ==
    From(dispatch(s, IF specs = <<>> THEN NoSpec ELSE specs[1].tx),
         "dispatchCodeMirrorTransaction")

RECURSIVE Invoke(_, _, _, _)

\* TestDriver.completeBackgroundWork, up to its await
completeBackgroundWork(s) ==
    Push(runOnlyPendingTimers(s), Frame("completeBackgroundWork", "await", 0, <<>>, <<>>))

\* the functions the tests pass to completeBackgroundWorkAfterEach
RunFunction(s, name) ==
    CASE name = "typeX" -> Invoke(s, "TestText", "type", <<ArgString(<<"x">>)>>)
      [] name = "receiveChanges" -> Invoke(s, "TestReceiver", "changes", <<ArgString(<<"t">>)>>)
      [] OTHER -> s

\* a loop that starts the background work and does not await it
RECURSIVE afterEachWithoutAwait(_)
afterEachWithoutAwait(s) ==
    LET f == Top(s)
    IN IF f.i < Len(f.acts)
       THEN LET s1 == [s EXCEPT !.stack[Len(s.stack)].i = f.i + 1]
                s2 == RunFunction(Traced(s1, "action", f.i + 1), f.acts[f.i + 1].name)
                s3 == Invoke(s2, "TestDriver", "completeBackgroundWork", <<>>)
            IN afterEachWithoutAwait(Pop(s3))
       ELSE IF f.pos = "traced"
            THEN [Pop(s) EXCEPT !.trace.running = FALSE, !.trace.done = TRUE]
            ELSE Pop(s)

\* TestDriver.completeBackgroundWorkAfterEach: the loop from its frame on,
\* up to the next await or to the return
RECURSIVE afterEach(_)
afterEach(s) ==
    LET f == Top(s)
    IN IF f.i < Len(f.acts)
       THEN LET s1 == [s EXCEPT !.stack[Len(s.stack)].i = f.i + 1]
                s2 == RunFunction(Traced(s1, "action", f.i + 1), f.acts[f.i + 1].name)
                s3 == Invoke(s2, "TestDriver", "completeBackgroundWork", <<>>)
            IN s3
       ELSE IF f.pos = "traced"
            THEN [Pop(s) EXCEPT !.trace.running = FALSE, !.trace.done = TRUE]
            ELSE Pop(s)

completeBackgroundWorkAfterEach(s, acts) ==
    LET outer == s.stack = <<>>
        s1 == IF outer
              THEN [s EXCEPT !.trace = [running |-> TRUE, done |-> FALSE,
                                        n |-> Len(acts), steps |-> <<>>]]
              ELSE s
    IN afterEach(Push(s1, Frame("completeBackgroundWorkAfterEach",
                                IF outer THEN "traced" ELSE "loop", 0, acts, <<>>)))

\* TestDriver.advanceTimeAndCompleteNextLinting, up to its await
advanceTimeAndCompleteNextLinting(s) ==
    LET s1 == advanceTimersToNextTimer(advanceTimersByTime(s, 1000))
        s2 == Push(s1, Frame("advanceTimeAndCompleteNextLinting", "await", 0, <<>>, <<>>))
    IN Invoke(s2, "TestDriver", "completeBackgroundWork", <<>>)

\* the original method a wrapper calls with value.apply(this, args)
Original(s, target, action, args) ==
    LET s1 == [s EXCEPT !.runs = Append(@, [target |-> target, action |-> action,
                                            args |-> args, logged |-> Len(s.actions)])]
    IN CASE target = "TestText" /\ action = "type" ->
               type(s1, IF args = <<>> THEN <<>> ELSE args[1].text)
         [] target = "TestReceiver" -> receive(s1, action)
         [] action = "dispatchCodeMirrorTransaction" -> dispatchCodeMirrorTransaction(s1, args)
         [] action = "completeBackgroundWork" -> completeBackgroundWork(s1)
         [] action = "completeBackgroundWorkAfterEach" -> completeBackgroundWorkAfterEach(s1, args)
         [] action = "advanceTimeAndCompleteNextLinting" -> advanceTimeAndCompleteNextLinting(s1)
         [] action = "toJSON" -> TestDriver_toJSON(s1)
         [] OTHER -> s1

\* a wrapper that pushes the tuple when the original has returned
InvokeThenPush(s, target, action, args) ==
    IF Observed(target, action)
    THEN [Original(s, target, action, args)
             EXCEPT !.actions = Append(@, Tuple(target, action, args))]
    ELSE Original(s, target, action, args)

\* object[key] of an observed object: the wrapper pushes the tuple and then
\* calls the original; a key that is not observed is the original itself
Invoke(s, target, action, args) ==
    IF Observed(target, action)
    THEN Original([s EXCEPT !.actions = Append(@, Tuple(target, action, args))],
                  target, action, args)
    ELSE Original(s, target, action, args)

-----------------------------------------------------------------------------
(* TestDriver.new and TestDriver.fromJSON *)

Options(withCursor, str, offset, keepClosed) ==
    [hasTextWithCursor |-> withCursor # <<>>, textWithCursor |-> withCursor,
     hasText |-> str # <<>>, text |-> str,
     hasCursor |-> offset # -1, cursor |-> offset,
     keepSocketClosed |-> keepClosed]

NoOptions == Options(<<>>, <<>>, -1, FALSE)

\* a cursor taken behind the mark, not at it
getInitialStateBehindMark(opts) ==
    IF opts.hasTextWithCursor
    THEN [hasText |-> TRUE, text |-> replaceFirst(opts.textWithCursor, "|"),
          hasCursor |-> TRUE, cursor |-> indexOf(opts.textWithCursor, "|") + 1]
    ELSE [hasText |-> opts.hasText, text |-> opts.text,
          hasCursor |-> opts.hasCursor, cursor |-> opts.cursor]

getInitialState(opts) ==
    IF opts.hasTextWithCursor
    THEN [hasText |-> TRUE, text |-> replaceFirst(opts.textWithCursor, "|"),
          hasCursor |-> TRUE, cursor |-> indexOf(opts.textWithCursor, "|")]
    ELSE [hasText |-> opts.hasText, text |-> opts.text,
          hasCursor |-> opts.hasCursor, cursor |-> opts.cursor]

\* globalThis.WebSocket instanceof MockSocket: new installs a function that
\* returns the socket, and a function is no instance of MockSocket
InstanceofMockSocket(value) == value = "MockSocket"

\* new MockSocket()
MockSocket(s) ==
    [s EXCEPT !.sent = <<>>, !.createdCount = 0,
              !.handlers = [open |-> <<>>, message |-> <<>>, close |-> <<>>],
              !.events = <<>>, !.handled = <<>>]

\* mirrorsharp(container, msOptions): the editor is created with the initial
\* text and cursor and connects through the global WebSocket
mirrorsharp(s, initialText, initialCursorOffset, greeting) ==
    LET s1 == [s EXCEPT !.doc = initialText, !.cursor = initialCursorOffset,
                        !.connected = FALSE, !.hello = greeting, !.outbox = <<>>,
                        !.timerPending = FALSE, !.lastTx = NoTx,
                        !.dispatched = <<>>,
                        !.createdCount = @ + 1]
    IN addEventListener(addEventListener(addEventListener(s1,
           "open", "onOpen"), "message", "onMessage"), "close", "onClose")

\* new this(socket, ms, options): the constructor and its recorder
TestDriver(s, opts) ==
    [s EXCEPT !.generation = @ + 1, !.options = opts, !.actions = <<>>, !.runs = <<>>,
              !.trace = [running |-> FALSE, done |-> FALSE, n |-> 0, steps |-> <<>>]]

Done(s, kind) ==
    IF s.stack = <<>> THEN [s EXCEPT !.returned = Returned(kind, <<>>)] ELSE s

\* TestDriver.new, up to its await or to its return
TestDriver_new(s, opts, greeting) ==
    LET initial == getInitialState(opts)
    IN IF InstanceofMockSocket(s.globalWebSocket)
       THEN Done(s, "error")
       ELSE LET s1 == [MockSocket(s) EXCEPT !.globalWebSocket = "factory"]
                s2 == mirrorsharp(s1, IF initial.hasText THEN initial.text ELSE <<>>,
                                  IF initial.hasCursor THEN initial.cursor ELSE 0, greeting)
                driver == TestDriver(s2, opts)
            IN IF opts.keepSocketClosed
               THEN Done(driver, "driver")
               ELSE Invoke(trigger(Push(driver, Frame("new", "await", 0, <<>>, <<>>)),
                                   "open", ""),
                           "TestDriver", "completeBackgroundWork", <<>>)

\* a new that returns the driver with what the socket was sent while opening
afterNewKeepingSent(s) ==
    Done(Pop(runOnlyPendingTimers(s)), "driver")

\* TestDriver.new after its await
afterNew(s) ==
    Done(Pop([runOnlyPendingTimers(s) EXCEPT !.sent = <<>>]), "driver")

\* TestRecorder.replayFromJSON: one turn of its loop.  toJSON returns the
\* recorder's own array, so a list that came from the same recorder ("live")
\* is read as the log stands at each turn; f.list is the list as it was given
replayFromJSON(s) ==
    LET f == Top(s)
        list == IF f.pos = "live" THEN s.actions ELSE f.list
    IN IF f.i < Len(list)
       THEN LET a == list[f.i + 1]
            IN Invoke([s EXCEPT !.stack[Len(s.stack)].i = f.i + 1],
                      a.target, a.action, a.args)
       ELSE Pop(s)

\* recorder.replayFromJSON(recorder.toJSON()) on the driver's own recorder
replayOwnLog(s) ==
    IF HasFunctionArgument(s.actions)
    THEN [s EXCEPT !.returned = Returned("error", <<>>)]
    ELSE Push(s, Frame("replayFromJSON", "live", 0, <<>>, s.actions))

\* TestDriver.fromJSON, up to its first await
TestDriver_fromJSON(s, json, greeting) ==
    TestDriver_new(Push([s EXCEPT !.original = json.actions],
                        Frame("fromJSON", "new", 0, <<>>, json.actions)),
                   s.options, greeting)

\* TestDriver.fromJSON after an await
afterFromJSON(s) ==
    LET f == Top(s)
    IN IF f.pos = "new"
       THEN Push([s EXCEPT !.stack[Len(s.stack)].pos = "replay"],
                 Frame("replayFromJSON", "loop", 0, <<>>, f.list))
       ELSE Done(Pop(s), "replayed")

-----------------------------------------------------------------------------
(* The inputs of the test script *)

TestOptions ==
    {Options(<<"a", "|", "b", "c">>, <<>>, -1, FALSE),
     Options(<<"a", "|", "b", "c">>, <<>>, -1, TRUE),
     Options(<<>>, <<"a", "b", "c">>, -1, FALSE)}

\* what the editor sends of its own when its connection opens
Greetings == {<<>>, <<Message("O", <<>>)>>}

TypedTexts == {<<"x">>, <<"x", "y">>}

ReceiverCalls ==
    {Tuple("TestReceiver", "changes", <<ArgString(<<"t">>)>>),
     Tuple("TestReceiver", "optionsEcho", <<>>),
     Tuple("TestReceiver", "completions", <<>>),
     Tuple("TestReceiver", "completionInfo", <<ArgNumber(0)>>)}

FunctionNames == {"typeX", "receiveChanges"}

FunctionLists ==
    UNION {[1..n -> {ArgFunction(name) : name \in FunctionNames}] : n \in 0..MaxEach}

\* the transactions the harness specification dispatches
SomeSpecs(len) ==
    {TransactionSpec(<<Change(0, 1, <<>>), Change(len, len, <<"y">>)>>, -1, "")}

-----------------------------------------------------------------------------
(* Initial state: a fresh context, no driver yet *)

Init ==
    /\ globalWebSocket = "native"
    /\ generation = 0
    /\ options = NoOptions
    /\ actions = <<>>
    /\ sent = <<>>
    /\ createdCount = 0
    /\ handlers = [open |-> <<>>, message |-> <<>>, close |-> <<>>]
    /\ doc = <<>>
    /\ cursor = 0
    /\ connected = FALSE
    /\ hello = <<>>
    /\ outbox = <<>>
    /\ timerPending = FALSE
    /\ stack = <<>>
    /\ calls = 0
    /\ runs = <<>>
    /\ events = <<>>
    /\ handled = <<>>
    /\ trace = [running |-> FALSE, done |-> FALSE, n |-> 0, steps |-> <<>>]
    /\ lastTx = NoTx
    /\ dispatched = <<>>
    /\ returned = Returned("none", <<>>)
    /\ original = <<>>

-----------------------------------------------------------------------------
(* Calls of the test script: it calls when nothing it awaits is pending *)

Idle == stack = <<>>

CanCall == generation > 0 /\ Idle /\ calls < MaxCalls

Pending(s) == [s EXCEPT !.returned = Returned("pending", <<>>)]

\* the state as a call of the test script on the driver finds it
Called == [Pending(St) EXCEPT !.calls = @ + 1]

New ==
    /\ Idle
    /\ generation = 0
    /\ \E opts \in TestOptions, greeting \in Greetings :
           Commit(TestDriver_new(Pending(St), opts, greeting))

\* a further TestDriver.new in the context of an earlier one
NewAgain ==
    /\ Idle
    /\ generation > 0
    /\ generation < MaxDrivers
    /\ \E opts \in TestOptions, greeting \in Greetings :
           Commit(TestDriver_new(Pending(St), opts, greeting))

FromJSON ==
    /\ Idle
    /\ generation > 0
    /\ generation < MaxDrivers
    /\ returned.kind = "json"
    /\ \E greeting \in Greetings :
           Commit(TestDriver_fromJSON(Pending(St), returned, greeting))

ToJSON ==
    /\ CanCall
    /\ Commit(Invoke(Called, "TestDriver", "toJSON", <<>>))

Type ==
    /\ CanCall
    /\ \E text \in TypedTexts :
           Commit(Done(Invoke(Called, "TestText", "type", <<ArgString(text)>>), "undefined"))

Receive ==
    /\ CanCall
    /\ \E call \in ReceiverCalls :
           Commit(Done(Invoke(Called, call.target, call.action, call.args), "undefined"))

GetCodeMirrorView ==
    /\ CanCall
    /\ Commit(Done(Invoke(Called, "TestDriver", "getCodeMirrorView", <<>>), "view"))

Dispatch ==
    /\ CanCall
    /\ Len(doc) > 0
    /\ \E tx \in SomeSpecs(Len(doc)) :
           Commit(Done(Invoke(Called, "TestDriver", "dispatchCodeMirrorTransaction",
                              <<ArgObject(tx)>>), "undefined"))

CompleteBackgroundWork ==
    /\ CanCall
    /\ Commit(Invoke(Called, "TestDriver", "completeBackgroundWork", <<>>))

CompleteBackgroundWorkAfterEach ==
    /\ CanCall
    /\ \E acts \in FunctionLists :
           Commit(Done(Invoke(Called, "TestDriver", "completeBackgroundWorkAfterEach",
                              acts), "undefined"))

AdvanceTimeAndCompleteNextLinting ==
    /\ CanCall
    /\ Commit(Invoke(Called, "TestDriver", "advanceTimeAndCompleteNextLinting", <<>>))

ReplayOwnLog ==
    /\ CanCall
    /\ Commit(replayOwnLog(Called))

-----------------------------------------------------------------------------
(* Continuations: the innermost suspended async function goes on *)

Suspended(fn) == stack # <<>> /\ stack[Len(stack)].fn = fn

ResumeCompleteBackgroundWork ==
    /\ Suspended("completeBackgroundWork")
    /\ Commit(Done(Pop(runOnlyPendingTimers(Traced(St, "yield", 0))), "undefined"))

ResumeAfterEach ==
    /\ Suspended("completeBackgroundWorkAfterEach")
    /\ Commit(Done(afterEach(St), "undefined"))

ResumeAdvanceTime ==
    /\ Suspended("advanceTimeAndCompleteNextLinting")
    /\ Commit(Done(Pop(St), "undefined"))

ResumeNew ==
    /\ Suspended("new")
    /\ Commit(afterNew(St))

ResumeFromJSON ==
    /\ Suspended("fromJSON")
    /\ Commit(afterFromJSON(St))

ResumeReplay ==
    /\ Suspended("replayFromJSON")
    /\ Top(St).pos = "live" => Top(St).i < MaxTurns
    /\ Commit(Done(replayFromJSON(St), "undefined"))

Next ==
    \/ New
    \/ NewAgain
    \/ FromJSON
    \/ ToJSON
    \/ Type
    \/ Receive
    \/ GetCodeMirrorView
    \/ Dispatch
    \/ CompleteBackgroundWork
    \/ CompleteBackgroundWorkAfterEach
    \/ AdvanceTimeAndCompleteNextLinting
    \/ ReplayOwnLog
    \/ ResumeCompleteBackgroundWork
    \/ ResumeAfterEach
    \/ ResumeAdvanceTime
    \/ ResumeNew
    \/ ResumeFromJSON
    \/ ResumeReplay

Spec == Init /\ [][Next]_vars

-----------------------------------------------------------------------------
(* The editing specification: one driver, and every small transaction *)

EditOptions ==
    {Options(<<"|", "a", "b", "c">>, <<>>, -1, FALSE),
     Options(<<"a", "|", "b", "c">>, <<>>, -1, FALSE),
     Options(<<"a", "b", "c", "|">>, <<>>, -1, FALSE),
     Options(<<>>, <<"a", "b", "c">>, 2, FALSE),
     Options(<<"a", "|", "b", "c">>, <<>>, -1, TRUE)}

InsertedTexts == {<<>>, <<"x">>, <<"x", "y">>}

\* one change of a document of length len, at offset lowest or after it:
\* it removes or inserts something
Changes(len, lowest) ==
    {c \in {Change(from, from + removed, insert) :
               from \in lowest..len, removed \in 0..MaxRemove, insert \in InsertedTexts} :
        c.to <= len /\ (c.to > c.from \/ c.insert # <<>>)}

\* up to n changes at ascending offsets of the original document that do not
\* overlap, the first at offset lowest or after it
RECURSIVE ChangeLists(_, _, _)
ChangeLists(len, lowest, n) ==
    IF n = 0 THEN {<<>>}
    ELSE {<<>>} \cup
         UNION {{<<c>> \o rest :
                    rest \in ChangeLists(len, IF c.to > c.from THEN c.to ELSE c.from + 1, n - 1)} :
                c \in Changes(len, lowest)}

AllChanges(len) == ChangeLists(len, 0, MaxChanges) \ {<<>>}

\* the script edits up to MaxEdits times, a dispatched transaction last
CanEdit ==
    /\ CanCall
    /\ lastTx.n < MaxEdits
    /\ lastTx.origin # "dispatchCodeMirrorTransaction"

EditNew ==
    /\ Idle
    /\ generation = 0
    /\ \E opts \in EditOptions, greeting \in Greetings :
           Commit(TestDriver_new(Pending(St), opts, greeting))

EditType ==
    /\ CanEdit
    /\ \E char \in Letters :
           Commit(Done(Invoke(Called, "TestText", "type", <<ArgString(<<char>>)>>), "undefined"))

EditDispatch ==
    /\ CanEdit
    /\ \E changes \in AllChanges(Len(doc)) :
           Commit(Done(Invoke(Called, "TestDriver", "dispatchCodeMirrorTransaction",
                              <<ArgObject(TransactionSpec(changes, -1, ""))>>), "undefined"))

KeydownEnter ==
    /\ CanEdit
    /\ Commit(Done(keydownEnter(Called), "undefined"))

NextEdit ==
    \/ EditNew
    \/ EditType
    \/ EditDispatch
    \/ KeydownEnter
    \/ CompleteBackgroundWork
    \/ ResumeCompleteBackgroundWork
    \/ ResumeNew

SpecEdit == Init /\ [][NextEdit]_vars

-----------------------------------------------------------------------------
(* The socket specification: a MockSocket by itself, from its construction; *)
(* listeners are added to it and events triggered on it                     *)

EventNames == {"open", "message", "close"}

\* the editor's listener for 'open', and two listeners that do nothing
Listeners == {"onOpen", "h1", "h2"}

ListenerCount == Len(handlers.open) + Len(handlers.message) + Len(handlers.close)

\* the state new MockSocket() leaves, in front of an editor that has yet to
\* add its listeners
InitSocket ==
    /\ globalWebSocket = "native"
    /\ generation = 0
    /\ options = NoOptions
    /\ actions = <<>>
    /\ sent = <<>>
    /\ createdCount = 0
    /\ handlers = [open |-> <<>>, message |-> <<>>, close |-> <<>>]
    /\ doc = <<>>
    /\ cursor = 0
    /\ connected = FALSE
    /\ hello \in Greetings
    /\ outbox = <<>>
    /\ timerPending = FALSE
    /\ stack = <<>>
    /\ calls = 0
    /\ runs = <<>>
    /\ events = <<>>
    /\ handled = <<>>
    /\ trace = [running |-> FALSE, done |-> FALSE, n |-> 0, steps |-> <<>>]
    /\ lastTx = NoTx
    /\ dispatched = <<>>
    /\ returned = Returned("none", <<>>)
    /\ original = <<>>

SocketAddEventListener ==
    /\ ListenerCount < MaxListeners
    /\ \E event \in EventNames, handler \in Listeners :
           Commit(addEventListener(St, event, handler))

SocketTrigger ==
    /\ Len(events) < MaxTriggers
    /\ \E event \in EventNames :
           Commit(trigger(St, event, IF event = "message" THEN "changes" ELSE ""))

NextSocket ==
    \/ SocketAddEventListener
    \/ SocketTrigger

SpecSocket == InitSocket /\ [][NextSocket]_vars

-----------------------------------------------------------------------------
(* The initial-state specification: TestDriver.new with every small option  *)
(* set, and nothing after it                                                *)

RECURSIVE Strings(_, _)
Strings(chars, n) ==
    IF n = 0 THEN {<<>>}
    ELSE LET shorter == Strings(chars, n - 1)
         IN shorter \cup {Append(str, ch) : str \in shorter, ch \in chars}

InitialTexts == Strings({"a", "|"}, MaxText)

\* { textWithCursor }, { text, cursor? } and {}, each with keepSocketClosed or not
InitialOptions ==
    {[hasTextWithCursor |-> TRUE, textWithCursor |-> str, hasText |-> FALSE,
      text |-> <<>>, hasCursor |-> FALSE, cursor |-> -1, keepSocketClosed |-> closed] :
         str \in InitialTexts, closed \in BOOLEAN}
    \cup
    UNION {{[hasTextWithCursor |-> FALSE, textWithCursor |-> <<>>, hasText |-> TRUE,
             text |-> str, hasCursor |-> offset # -1, cursor |-> offset,
             keepSocketClosed |-> closed] :
                offset \in -1..Len(str), closed \in BOOLEAN} : str \in InitialTexts}
    \cup
    {[NoOptions EXCEPT !.keepSocketClosed = closed] : closed \in BOOLEAN}

InitialNew ==
    /\ Idle
    /\ generation = 0
    /\ \E opts \in InitialOptions, greeting \in Greetings :
           Commit(TestDriver_new(Pending(St), opts, greeting))

NextInitial ==
    \/ InitialNew
    \/ ResumeCompleteBackgroundWork
    \/ ResumeNew

SpecInitial == Init /\ [][NextInitial]_vars

-----------------------------------------------------------------------------
(* Reading the state for the claims *)

NotU(message) == ~startsWith(message, "U")

\* the non-'U' messages sent since the last transaction was dispatched
SentByLastTx ==
    IF lastTx.mark <= Len(sent)
    THEN SelectSeq(SubSeq(sent, lastTx.mark + 1, Len(sent)), NotU)
    ELSE <<>>

IsDigit(ch) == \E d \in 1..10 : DigitChars[d] = ch

DigitValue(ch) == (CHOOSE d \in 1..10 : DigitChars[d] = ch) - 1

IsNumber(str) == str # <<>> /\ \A i \in 1..Len(str) : IsDigit(str[i])

RECURSIVE ParseNumber(_)
ParseNumber(str) ==
    IF str = <<>> THEN 0
    ELSE 10 * ParseNumber(SubSeq(str, 1, Len(str) - 1)) + DigitValue(str[Len(str)])

ColonsUpTo(message, i) == Cardinality({j \in 1..i : message[j] = ":"})

NthColon(message, n) ==
    CHOOSE i \in 1..Len(message) : message[i] = ":" /\ ColonsUpTo(message, i) = n

\* the fields of R<start>:<removedLength>:<insertedLength>:<tag>:<insertedText>
ParseReplace(message) ==
    IF ~(startsWith(message, "R") /\ ColonsUpTo(message, Len(message)) >= 4)
    THEN [ok |-> FALSE, start |-> 0, removed |-> 0, inserted |-> 0, tag |-> <<>>, text |-> <<>>]
    ELSE LET c1 == NthColon(message, 1)
             c2 == NthColon(message, 2)
             c3 == NthColon(message, 3)
             c4 == NthColon(message, 4)
             f1 == SubSeq(message, 2, c1 - 1)
             f2 == SubSeq(message, c1 + 1, c2 - 1)
             f3 == SubSeq(message, c2 + 1, c3 - 1)
             valid == IsNumber(f1) /\ IsNumber(f2) /\ IsNumber(f3)
         IN [ok |-> valid,
             start |-> IF valid THEN ParseNumber(f1) ELSE 0,
             removed |-> IF valid THEN ParseNumber(f2) ELSE 0,
             inserted |-> IF valid THEN ParseNumber(f3) ELSE 0,
             tag |-> SubSeq(message, c3 + 1, c4 - 1),
             text |-> SubSeq(message, c4 + 1, Len(message))]

HasRun(action) == \E k \in 1..Len(runs) : runs[k].action = action

LastRun(action) ==
    runs[CHOOSE k \in 1..Len(runs) :
             runs[k].action = action /\ \A j \in k + 1..Len(runs) : runs[j].action # action]

\* the changes the last dispatchCodeMirrorTransaction call was given
GivenChanges ==
    IF HasRun("dispatchCodeMirrorTransaction")
       /\ LastRun("dispatchCodeMirrorTransaction").args # <<>>
    THEN LastRun("dispatchCodeMirrorTransaction").args[1].tx.changes
    ELSE <<>>

\* the text the last TestText.type call was given
TypedText ==
    IF HasRun("type") /\ LastRun("type").args # <<>>
    THEN LastRun("type").args[1].text
    ELSE <<>>

\* what the edits before the k-th one inserted, less what they removed
RECURSIVE ShiftBefore(_, _)
ShiftBefore(changes, k) ==
    IF k <= 1 THEN 0
    ELSE ShiftBefore(changes, k - 1)
         + Len(changes[k - 1].insert) - (changes[k - 1].to - changes[k - 1].from)

-----------------------------------------------------------------------------
(* Claims about the change messages (specification SpecEdit) *)

\* C1: a transaction of N >= 2 simultaneous edits at ascending offsets of the
\* original document is sent as exactly N non-'U' messages, in that order,
\* each an R message; the start of the k-th is its offset plus what the
\* earlier edits inserted less what they removed.
C1_SimultaneousEditsSentAsReplaces ==
    (connected /\ lastTx.origin = "dispatchCodeMirrorTransaction"
        /\ Len(GivenChanges) >= 2) =>
        /\ Len(SentByLastTx) = Len(GivenChanges)
        /\ \A k \in 1..Len(GivenChanges) :
               LET m == ParseReplace(SentByLastTx[k])
                   c == GivenChanges[k]
               IN /\ m.ok
                  /\ m.start = c.from + ShiftBefore(GivenChanges, k)
                  /\ m.removed = c.to - c.from
                  /\ m.inserted = Len(c.insert)
                  /\ m.text = c.insert

\* C1 witness: inserts of one character at 1, 2, 3 were sent with starts 1, 3, 5
C1_Witness ==
    /\ connected
    /\ lastTx.origin = "dispatchCodeMirrorTransaction"
    /\ GivenChanges = <<Change(1, 1, <<"x">>), Change(2, 2, <<"x">>), Change(3, 3, <<"x">>)>>
    /\ SentByLastTx = << <<"R", "1", ":", "0", ":", "1", ":", ":", "x">>,
                         <<"R", "3", ":", "0", ":", "1", ":", ":", "x">>,
                         <<"R", "5", ":", "0", ":", "1", ":", ":", "x">> >>

C3_EditAwayFromCursorSentAsReplace ==
    (connected /\ lastTx.origin = "dispatchCodeMirrorTransaction"
        /\ Len(GivenChanges) = 1 /\ GivenChanges[1].from # lastTx.cursor) =>
        /\ Len(SentByLastTx) = 1
        /\ LET m == ParseReplace(SentByLastTx[1])
               c == GivenChanges[1]
           IN /\ m.ok
              /\ m.start = c.from
              /\ m.removed = c.to - c.from
              /\ m.inserted = Len(c.insert)
              /\ m.tag = <<>>
              /\ m.text = c.insert

\* C3 witness: with the cursor at 1, an insert of 'x' at 2 was sent as R2:0:1::x
C3_Witness ==
    /\ connected
    /\ lastTx.origin = "dispatchCodeMirrorTransaction"
    /\ lastTx.cursor = 1
    /\ GivenChanges = <<Change(2, 2, <<"x">>)>>
    /\ SentByLastTx = << <<"R", "2", ":", "0", ":", "1", ":", ":", "x">> >>

\* C4: a line break entered at the cursor at offset c is sent as the replace
\* message R<c>:0:2:: followed by CR LF, not as a C message.
C4_EnterSentAsReplace ==
    (connected /\ lastTx.origin = "keydown") =>
        /\ Len(SentByLastTx) = 1
        /\ LET m == ParseReplace(SentByLastTx[1])
           IN /\ m.ok
              /\ m.start = lastTx.cursor
              /\ m.removed = 0
              /\ m.inserted = 2
              /\ m.tag = <<>>
              /\ m.text = <<CR, LF>>

\* C4 witness: Enter with the cursor at 1 was sent as R1:0:2:: CR LF
C4_Witness ==
    /\ connected
    /\ lastTx.origin = "keydown"
    /\ lastTx.cursor = 1
    /\ SentByLastTx = << <<"R", "1", ":", "0", ":", "2", ":", ":", CR, LF>> >>

-----------------------------------------------------------------------------
(* Claims about the recorder, the socket and the driver (specification Spec) *)

\* C5: the driver fromJSON reconstructs from a driver's toJSON output ends
\* with a recorder log equal to the action list recorded on the original.
C5_ReplayReproducesRecordedLog ==
    returned.kind = "replayed" => actions = original

\* C6, as claimed: no step of a driver or its socket removes, replaces or
\* reorders messages already in socket.sent.
C6_SentOnlyGrows ==
    [][generation' = generation => IsPrefix(sent, sent')]_vars

\* C6, amended: socket.sent only grows at its end, except that TestDriver.new
\* empties it once after its await, before it returns the driver.
C6_SentOnlyGrowsAfterNew ==
    [][generation' = generation =>
          \/ IsPrefix(sent, sent')
          \/ Suspended("new") /\ sent' = <<>>]_vars

\* C6 witness: the editor sent a greeting when the socket opened, new emptied
\* the list, and the messages of a typed character follow in order
C6_Witness ==
    /\ hello # <<>>
    /\ connected
    /\ Idle
    /\ Len(sent) = 2
    /\ sent[1] = <<"C", "x">>
    /\ sent[2] = <<"U">>

IsExcluded(run) == run.target = "TestDriver" /\ run.action \in {"render", "toJSON"}

NotExcluded(run) == ~IsExcluded(run)

\* every run of an observed method has its tuple in the log, at the place of
\* its start, pushed before the method ran
LogMatchesRuns ==
    LET observed == SelectSeq(runs, NotExcluded)
    IN /\ Len(actions) = Len(observed)
       /\ \A k \in 1..Len(observed) :
              /\ actions[k] = Tuple(observed[k].target, observed[k].action, observed[k].args)
              /\ observed[k].logged = k

ToJSONRuns ==
    /\ Len(runs') = Len(runs) + 1
    /\ runs'[Len(runs')].action = "toJSON"

SomeArgumentIsFunction ==
    \E k \in 1..Len(actions) : \E a \in 1..Len(actions[k].args) :
        actions[k].args[a].kind = "function"

\* C8: toJSON fails if and only if some recorded action has a function among
\* its arguments, else it returns the recorded list; the log stays as it is.
C8_ToJSONFailsOnFunctionArguments ==
    [][ToJSONRuns =>
          /\ actions' = actions
          /\ returned'.kind = "error" <=> SomeArgumentIsFunction
          /\ returned'.kind # "error" => returned' = Returned("json", actions)]_vars

\* C8 witness: toJSON has failed on a log that holds a function argument
\* after an action without one
C8_Witness ==
    /\ returned.kind = "error"
    /\ runs # <<>> /\ runs[Len(runs)].action = "toJSON"
    /\ Len(actions) >= 2
    /\ actions[1].args = <<>>
    /\ actions[Len(actions) - 2].args # <<>>
    /\ actions[Len(actions) - 2].args[1].kind = "function"

ReceiverRuns ==
    /\ Len(runs') = Len(runs) + 1
    /\ runs'[Len(runs')].target = "TestReceiver"

\* C9: a call of a TestReceiver method delivers exactly one 'message' event
\* whose payload type is the method's name, no 'open' or 'close' event, and
\* appends nothing to socket.sent.
C9_ReceiverDeliversOneMessage ==
    [][ReceiverRuns =>
          /\ events' = Append(events, [event |-> "message",
                                       type |-> runs'[Len(runs')].action])
          /\ sent' = sent]_vars

\* C9 witness: completionInfo was called and its message event delivered to
\* the editor's listener
C9_Witness ==
    /\ runs # <<>> /\ runs[Len(runs)].action = "completionInfo"
    /\ events # <<>> /\ events[Len(events)] = [event |-> "message", type |-> "completionInfo"]
    /\ handled # <<>> /\ handled[Len(handled)].handler = "onMessage"

\* the steps of completeBackgroundWorkAfterEach with n actions, in order
RECURSIVE ExpectedSteps(_)
ExpectedSteps(n) ==
    IF n = 0 THEN <<>>
    ELSE ExpectedSteps(n - 1)
         \o <<Step("action", n), Step("timers", 0), Step("yield", 0), Step("timers", 0)>>

\* C10: completeBackgroundWorkAfterEach runs its actions in the given order,
\* each followed by the pending timers, one yield and the pending timers
\* again before the next action starts, and it returns only after those of
\* the last action.
C10_BackgroundWorkCompletesAfterEach ==
    /\ IsPrefix(trace.steps, ExpectedSteps(trace.n))
    /\ trace.done => trace.steps = ExpectedSteps(trace.n)

\* C10 witness: a call with two actions has returned
C10_Witness ==
    /\ trace.done
    /\ trace.n = 2
    /\ Len(trace.steps) = 8
    /\ Idle

\* TestDriver.new has returned its driver, to the test script or to fromJSON,
\* and nothing was called since
NewHasReturned ==
    \/ returned.kind = "driver"
    \/ Suspended("fromJSON") /\ Top(St).pos = "new"

IsOpen(e) == e.event = "open"

C12_ReplayInvokesEachActionOnce ==
    [][Suspended("replayFromJSON") =>
          LET f == Top(St)
          IN IF f.i < Len(f.list)
             THEN /\ Len(runs') > Len(runs)
                  /\ runs'[Len(runs) + 1].target = f.list[f.i + 1].target
                  /\ runs'[Len(runs) + 1].action = f.list[f.i + 1].action
                  /\ runs'[Len(runs) + 1].args = f.list[f.i + 1].args
                  /\ Len(stack') >= Len(stack)
                  /\ stack'[Len(stack)].i = f.i + 1
             ELSE stack' = SubSeq(stack, 1, Len(stack) - 1)]_vars

\* the test script calls a static method, TestDriver.new or TestDriver.fromJSON:
\* its only calls that are not calls on a driver
StaticCall == Idle /\ calls' = calls /\ returned' # returned

\* C13: TestDriver.new called in a context where an earlier TestDriver.new has
\* installed the mock as the global WebSocket fails with the error 'Global
\* WebSocket is already set up in this context.' and installs no new socket.
C13_SecondNewFails ==
    [][(StaticCall /\ globalWebSocket = "factory") =>
          /\ returned'.kind = "error"
          /\ generation' = generation
          /\ createdCount' = createdCount
          /\ handlers' = handlers
          /\ sent' = sent]_vars

-----------------------------------------------------------------------------
(* Claims about the socket by itself (specification SpecSocket) *)

TriggerRuns == Len(events') = Len(events) + 1

\* C14: trigger(event) calls the handlers added for that event, once for each
\* time they were added, in the order they were added and with the event
\* argument, and no handler of another event; the handler lists stay as they
\* are, and with no handler for the event nothing changes, socket.sent included.
C14_TriggerCallsHandlersOfEvent ==
    [][TriggerRuns =>
          LET ev == events'[Len(events')]
              added == handlers[ev.event]
          IN /\ handlers' = handlers
             /\ Len(handled') = Len(handled) + Len(added)
             /\ \A k \in 1..Len(added) :
                    handled'[Len(handled) + k]
                        = [handler |-> added[k], event |-> ev.event, type |-> ev.type]
             /\ SubSeq(handled', 1, Len(handled)) = handled
             /\ added = <<>> =>
                    /\ sent' = sent
                    /\ connected' = connected
                    /\ outbox' = outbox]_vars

\* C14 witness: 'close' was triggered with no listener for it, then 'open'
\* with two listeners, which ran in the order they were added while the
\* listener for 'message' did not; the editor's listener sent its greeting
C14_Witness ==
    /\ generation = 0
    /\ events = <<[event |-> "close", type |-> ""], [event |-> "open", type |-> ""]>>
    /\ handlers = [open |-> <<"h1", "onOpen">>, message |-> <<"h2">>, close |-> <<>>]
    /\ handled = <<[handler |-> "h1", event |-> "open", type |-> ""],
                   [handler |-> "onOpen", event |-> "open", type |-> ""]>>
    /\ hello # <<>>
    /\ sent = hello

-----------------------------------------------------------------------------
(* Claims about typing and the initial state *)

TypeRuns ==
    /\ Len(runs') = Len(runs) + 1
    /\ runs'[Len(runs')].action = "type"
    /\ runs'[Len(runs')].args # <<>>

\* C15: type(text) with the cursor at offset c dispatches one 'input'
\* transaction per character, in text order, the i-th (from 0) inserting its
\* character at c+i with the cursor set to c+i+1; afterwards the cursor is at
\* c plus the length of text and the characters are at c to c+length-1.
C15_TypeDispatchesOneInputPerCharacter ==
    [][TypeRuns =>
          LET text == runs'[Len(runs')].args[1].text
              c == cursor
          IN /\ Len(dispatched') = Len(dispatched) + Len(text)
             /\ SubSeq(dispatched', 1, Len(dispatched)) = dispatched
             /\ \A i \in 0..Len(text) - 1 :
                    dispatched'[Len(dispatched) + i + 1]
                        = TransactionSpec(<<Change(c + i, c + i, <<text[i + 1]>>)>>,
                                          c + i + 1, "input")
             /\ cursor' = c + Len(text)
             /\ doc' = SubSeq(doc, 1, c) \o text \o SubSeq(doc, c + 1, Len(doc))]_vars

\* C15 witness: 'xy' was typed into 'abc' with the cursor at 1
C15_Witness ==
    /\ runs # <<>> /\ runs[Len(runs)].action = "type"
    /\ runs[Len(runs)].args = <<ArgString(<<"x", "y">>)>>
    /\ dispatched = <<TransactionSpec(<<Change(1, 1, <<"x">>)>>, 2, "input"),
                      TransactionSpec(<<Change(2, 2, <<"y">>)>>, 3, "input")>>
    /\ doc = <<"a", "x", "y", "b", "c">>
    /\ cursor = 3

InsertAt(str, k, ch) == SubSeq(str, 1, k) \o <<ch>> \o SubSeq(str, k + 1, Len(str))

HasMark(str) == \E i \in 1..Len(str) : str[i] = "|"

\* the driver was given text and cursor: the editor starts with them as given
TextAndCursorUnchanged ==
    /\ doc = (IF options.hasText THEN options.text ELSE <<>>)
    /\ options.hasCursor => cursor = options.cursor

\* C16, as claimed: for textWithCursor = s the initial text t and cursor k are
\* such that '|' inserted into t at k gives s, with 0 <= k <= length of t; text
\* and cursor given as such are unchanged.
C16_InitialStateSplitsAtMark ==
    generation > 0 =>
        IF options.hasTextWithCursor
        THEN /\ 0 <= cursor
             /\ cursor <= Len(doc)
             /\ InsertAt(doc, cursor, "|") = options.textWithCursor
        ELSE TextAndCursorUnchanged

\* C16, amended: the above for an s that holds a '|', k being the offset of
\* its first '|'; for an s without '|' the text is s and the cursor is -1.
C16_InitialStateSplitsAtFirstMark ==
    generation > 0 =>
        IF options.hasTextWithCursor
        THEN IF HasMark(options.textWithCursor)
             THEN /\ 0 <= cursor
                  /\ cursor <= Len(doc)
                  /\ InsertAt(doc, cursor, "|") = options.textWithCursor
                  /\ ~HasMark(SubSeq(doc, 1, cursor))
             ELSE /\ doc = options.textWithCursor
                  /\ cursor = -1
        ELSE TextAndCursorUnchanged

\* C16 witness: '|a|' gave the text 'a|' and the cursor 0
C16_Witness ==
    /\ generation > 0
    /\ options.hasTextWithCursor
    /\ options.textWithCursor = <<"|", "a", "|">>
    /\ doc = <<"a", "|">>
    /\ cursor = 0

====
